---- MODULE Spec2Model ----
(***************************************************************************)
(* Model of backend/segmenter.py: the interactive mask acquisition of      *)
(* Segmenter and VideoSegmenter, the enumeration of the 2^n pixelation      *)
(* combinations, the naming of the artifacts and the metadata files.       *)
(***************************************************************************)
EXTENDS Integers, Sequences, FiniteSets, TLC

(***************************************************************************)
(* Bounds of the model.                                                    *)
(***************************************************************************)
\* longest keyword list handed to process_image / process_video
MaxKeywords == 2
\* most points clicked during one run
MaxPoints == 2
\* most resets pressed during one run
MaxResets == 1
\* number of frames extract_frames produced for the video
NumFrames == 2
\* most failures of the environment during one run: entries a propagation
\* stream leaves out, frame files that cannot be read, saves that fail
MaxFaults == 1

\* Python None: an optional value is <<>> (None) or <<v>>
None == <<>>

KeywordPool == <<"a", "b", "c", "d">>

\* the keyword lists of the runs: every list of 1..MaxKeywords keywords,
\* repeated keywords included (argparse nargs="+" takes any list).  Keywords
\* are opaque, so one list stands for all its renamings: the first keyword
\* is "a" and a keyword is new only if all the pool before it has occurred
KeywordLists ==
    UNION {{[x \in 1..n |-> KeywordPool[l[x]]] :
              l \in {c \in [1..n -> 1..n] :
                        \A x \in 1..n : \A v \in 1..(c[x] - 1) :
                            \E y \in 1..(x - 1) : c[y] = v}} :
           n \in 1..MaxKeywords}

Max(a, b) == IF a >= b THEN a ELSE b

RECURSIVE Pow2(_)
Pow2(n) == IF n = 0 THEN 1 ELSE 2 * Pow2(n - 1)

(***************************************************************************)
(* Text.  A Python str is a sequence of one-character strings, so that     *)
(* formatting and joining are computed and can be parsed back.             *)
(***************************************************************************)
DigitChar == <<"0", "1", "2", "3", "4", "5", "6", "7", "8", "9">>

\* str(j) / f"{j}" for j >= 0: the decimal rendering
RECURSIVE Str(_)
Str(j) == IF j < 10 THEN <<DigitChar[j + 1]>>
          ELSE Str(j \div 10) \o <<DigitChar[(j % 10) + 1]>>

\* the digits of bin(i), most significant first ("0" for 0)
RECURSIVE Bin(_)
Bin(i) == IF i < 2 THEN <<DigitChar[i + 1]>>
          ELSE Bin(i \div 2) \o <<DigitChar[(i % 2) + 1]>>

\* a rendering that forgets the width: format(i, 'b')
FormatBinaryUnpadded(i, n) == Bin(i)

\* format(i, f'0{n}b'): bin(i) padded with zeros on the left to width n;
\* a width below the length of bin(i) pads nothing (so n = 0 gives "0")
FormatBinary(i, n) ==
    LET b == Bin(i)
    IN [x \in 1..Max(n, Len(b)) |->
            IF x <= Max(n, Len(b)) - Len(b) THEN "0"
            ELSE b[x - (Max(n, Len(b)) - Len(b))]]

\* "_".join(parts)
RECURSIVE Join(_)
Join(parts) == IF Len(parts) = 0 THEN <<>>
               ELSE IF Len(parts) = 1 THEN parts[1]
               ELSE parts[1] \o <<"_">> \o Join(Tail(parts))

\* f"{j}blur" or f"{j}" for every j in range(num_masks), joined by "_"
\* (blurred_indices is the list of the indices that were pixelated)
CombinationKey(blurred_indices, num_masks) ==
    Join([x \in 1..num_masks |->
            IF (x - 1) \in blurred_indices
            THEN Str(x - 1) \o <<"b", "l", "u", "r">>
            ELSE Str(x - 1)])

(***************************************************************************)
(* Pixels.  An image is a record [w, h, px] with px the row-major list of  *)
(* the pixels' colours: pixel (x, y) is px[1 + x + y * w].  A mask is the  *)
(* row-major list of its booleans, of the size of the media.               *)
(***************************************************************************)
Pixels(w, h) == 1..(w * h)

At(w, x, y) == 1 + x + y * w

\* a nearest-neighbour resize that samples the corner of each output pixel
\* instead of its centre: floor(x * in_w / out_w), floor(y * in_h / out_h)
ResizeFromCorner(img, w, h) ==
    [w |-> w, h |-> h,
     px |-> [p \in Pixels(w, h) |->
                img.px[At(img.w, (((p - 1) % w) * img.w) \div w,
                                 (((p - 1) \div w) * img.h) \div h)]]]

\* Image.resize(size, Image.NEAREST): output pixel (x, y) is the input
\* pixel at floor((x + 0.5) * in_w / out_w), floor((y + 0.5) * in_h / out_h)
Resize(img, w, h) ==
    [w |-> w, h |-> h,
     px |-> [p \in Pixels(w, h) |->
                img.px[At(img.w, ((2 * ((p - 1) % w) + 1) * img.w) \div (2 * w),
                                 ((2 * ((p - 1) \div w) + 1) * img.h) \div (2 * h))]]]

pixelation_factor == 20

\* small_size = (width // pixelation_factor, height // pixelation_factor)
SmallSize(w, h) == <<w \div pixelation_factor, h \div pixelation_factor>>

\* PIL raises ValueError for a resize to a size with a zero component
ResizeFails(w, h) == SmallSize(w, h)[1] = 0 \/ SmallSize(w, h)[2] = 0

\* a pixelation whose two resizes sample corners instead of centres
PixelatedFromCorner(img) ==
    ResizeFromCorner(ResizeFromCorner(img, SmallSize(img.w, img.h)[1],
                                      SmallSize(img.w, img.h)[2]),
                     img.w, img.h)

\* small_img = pil_image.resize(small_size, NEAREST);
\* pixelated_img = small_img.resize((width, height), NEAREST)
Pixelated(img) ==
    Resize(Resize(img, SmallSize(img.w, img.h)[1], SmallSize(img.w, img.h)[2]),
           img.w, img.h)

\* a compositor that replaces nothing
PixelateNowhere(img, mask) == img

\* a compositor that forgets the mask: result_image = pixelated_array
PixelateEverywhere(img, mask) ==
    [img EXCEPT !.px = Pixelated(img).px]

\* result_image[mask] = pixelated_array[mask]
Pixelate(img, mask) ==
    LET pixelated_array == Pixelated(img).px
    IN [img EXCEPT !.px = [p \in DOMAIN img.px |->
                            IF mask[p] THEN pixelated_array[p]
                            ELSE img.px[p]]]

(***************************************************************************)
(* The media of a run: a picture large enough to be pixelated and one too  *)
(* small for it.  A frame's colours follow from its size and its index.    *)
(***************************************************************************)
\* media that cannot be loaded: cv2.imread gives None, the video cannot be
\* opened, or no frame is extracted from it
Unloadable == [w |-> 0, h |-> 0]

MediaChoices == {[w |-> 20, h |-> 20], [w |-> 2, h |-> 2], Unloadable}

SourceFrame(m, f) ==
    [w |-> m.w, h |-> m.h,
     px |-> [p \in Pixels(m.w, m.h) |->
                16 * ((((p - 1) % m.w) + 3 * ((p - 1) \div m.w) + 7 * f) % 16)]]

\* the positions a click can land on: int(event.xdata), int(event.ydata)
PointChoices(m) == {<<m.w \div 8, m.h \div 8>>, <<m.w \div 4, m.h \div 4>>}

(***************************************************************************)
(* The segmentation model (SAM2), an external capability.  Its prediction  *)
(* is a function of the whole point list it is handed: here the pixels at  *)
(* distance at most 3 of one of the points.                                *)
(***************************************************************************)
Near(x, y, q) == /\ x - q[1] <= 3 /\ q[1] - x <= 3
                 /\ y - q[2] <= 3 /\ q[2] - y <= 3

\* the mask of an object with prompt points pts in frame f of the video:
\* the object drifts one pixel to the right per frame
Track(m, pts, f) ==
    [p \in Pixels(m.w, m.h) |->
        \E k \in DOMAIN pts : Near(((p - 1) % m.w) - f, (p - 1) \div m.w, pts[k])]

\* predictor.predict(point_coords, point_labels)[0][0]
Predict(m, pts) == Track(m, pts, 0)

(***************************************************************************)
(* Python dict: an insertion-ordered list of [k, v] items.                 *)
(***************************************************************************)
DictKeys(d) == [x \in DOMAIN d |-> d[x].k]

DictHas(d, k) == \E x \in DOMAIN d : d[x].k = k

DictGet(d, k) == d[CHOOSE x \in DOMAIN d : d[x].k = k].v

\* d[k] = v: a new key goes to the end, an existing key keeps its position
DictSet(d, k, v) ==
    IF DictHas(d, k)
    THEN [x \in DOMAIN d |-> IF d[x].k = k THEN [k |-> k, v |-> v] ELSE d[x]]
    ELSE Append(d, [k |-> k, v |-> v])

(***************************************************************************)
(* State.                                                                  *)
(***************************************************************************)
VARIABLES
    mode,             \* "image" (Segmenter) or "video" (VideoSegmenter)
    keywords,         \* self.keywords
    media,            \* the loaded image or the extracted frames
    pc,               \* where the run is
    kw,               \* position in self.keywords of the current session
    points,           \* the session's list of clicked points
    mask,             \* the session's candidate (image: mask, video: masks)
    accepted,         \* accepted[0]
    resets,           \* number of resets pressed so far
    clicks,           \* number of points clicked so far
    cleared,          \* history: number of points discarded by resets
    masks,            \* self.masks
    video_segments,   \* self.video_segments
    inference_state,  \* the predictor's per-object prompts (video)
    mask_files,       \* the <keyword>_mask.npy files written
    artifacts,        \* the combinations generated, in generation order
    metadata,         \* metadata.json
    mask_keywords,    \* keywords.json
    faults,           \* number of save failures so far
    unreadable_frames,\* history: the frame files generation could not read
    lastOp,           \* history: the handler that ran last
    outcome,          \* history: how each finished session ended
    pixelation_map,   \* main: what process_image / process_video returned
    exit_status,      \* main: the exit status of the command-line run
    wv_pc,            \* write_video: "idle", "loop", "returned" or "raised"
    wv_frames,        \* write_video: number of frames handed in
    wv_env,           \* write_video: what each candidate does when tried
    wv_idx,           \* write_video: candidates of codecs tried so far
    wv_files,         \* write_video: the state of the file of each extension
    last_error,       \* write_video: last_error
    wv_log,           \* history: the codecs tried, in the order of the tries
    sg_pc,            \* schedule_game: "idle", or the stage it is about to run
    sg_env,           \* schedule_game: what the files and the services do
    sg_log,           \* history: the stages invoked, with what they reported
    media_url,        \* schedule_game: media_url
    uploaded_map,     \* schedule_game: pixelation_map
    sg_generated,     \* the files the segmenter returned to process_game_media
    blobs,            \* the blobs in the blob store
    db,               \* the PostgreSQL side: connection, rows of games
    redis_store,      \* the Redis side: connection, similarity data stored
    sg_result,        \* what schedule_game returned
    game_id,          \* schedule_game: game_id
    cp_pc,            \* compositing of one frame: "idle", "loop" or "done"
    cp_source,        \* the frame (self.image, or the frame read from disk)
    cp_masks,         \* the mask of each position in this frame, or None
    cp_binary,        \* binary
    cp_j,             \* number of positions of binary gone through
    cp_result,        \* result_image
    cp_trace          \* history: result_image after each position

vars == <<mode, keywords, media, pc, kw, points, mask, accepted, resets, clicks, cleared,
          masks,
          video_segments, inference_state, mask_files, artifacts, metadata,
          mask_keywords, faults, unreadable_frames, lastOp, outcome, pixelation_map, exit_status,
          wv_pc, wv_frames, wv_env, wv_idx, wv_files, last_error, wv_log,
          sg_pc, sg_env, sg_log, media_url, uploaded_map, sg_generated, blobs, db,
          redis_store, sg_result, game_id,
          cp_pc, cp_source, cp_masks, cp_binary, cp_j, cp_result, cp_trace>>

session == <<points, mask, accepted, resets, clicks, cleared>>
stores == <<masks, video_segments, inference_state, mask_files>>
outputs == <<artifacts, metadata, mask_keywords, faults, unreadable_frames>>
inputs == <<mode, keywords, media>>
report == <<pixelation_map, exit_status>>
pipeline == <<inputs, pc, kw, session, stores, outputs, lastOp, outcome, report>>
encoder == <<wv_pc, wv_frames, wv_env, wv_idx, wv_files, last_error, wv_log>>
game == <<sg_pc, sg_env, sg_log, media_url, uploaded_map, sg_generated, blobs, db,
          redis_store, sg_result, game_id>>

\* no call of write_video is being followed step by step
EncoderIdle ==
    /\ wv_pc = "idle"
    /\ wv_frames = 0
    /\ wv_env = <<>>
    /\ wv_idx = 0
    /\ wv_files = <<>>
    /\ last_error = None
    /\ wv_log = <<>>

compositor == <<cp_pc, cp_source, cp_masks, cp_binary, cp_j, cp_result, cp_trace>>

\* no compositing of a single frame is being followed
CompositorIdle ==
    /\ cp_pc = "idle"
    /\ cp_source = None
    /\ cp_masks = <<>>
    /\ cp_binary = <<>>
    /\ cp_j = 0
    /\ cp_result = None
    /\ cp_trace = <<>>

\* no call of schedule_game is being followed
GameIdle ==
    /\ sg_pc = "idle"
    /\ sg_env = <<>>
    /\ sg_log = <<>>
    /\ media_url = None
    /\ uploaded_map = None
    /\ sg_generated = None
    /\ blobs = {}
    /\ db = <<>>
    /\ redis_store = <<>>
    /\ sg_result = None
    /\ game_id = None

\* Segmenter.__init__ / VideoSegmenter.__init__ followed by the entry into
\* the first keyword's session
Init ==
    /\ EncoderIdle
    /\ GameIdle
    /\ CompositorIdle
    /\ mode \in {"image", "video"}
    /\ keywords \in KeywordLists
    /\ media \in MediaChoices
    /\ pc = IF media = Unloadable THEN "load_failed" ELSE "session"
    /\ pixelation_map = None
    /\ exit_status = None
    /\ kw = 1
    /\ points = <<>>
    /\ mask = None
    /\ accepted = FALSE
    /\ resets = 0
    /\ clicks = 0
    /\ cleared = 0
    /\ masks = <<>>
    /\ video_segments = <<>>
    /\ inference_state = <<>>
    /\ mask_files = <<>>
    /\ artifacts = <<>>
    /\ metadata = None
    /\ mask_keywords = None
    /\ faults = 0
    /\ unreadable_frames = {}
    /\ lastOp = "init"
    /\ outcome = <<>>

keyword == keywords[kw]

(***************************************************************************)
(* The session of one keyword (_process_keyword up to plt.show()).         *)
(***************************************************************************)
\* predictor.add_new_points_or_box(inference_state, frame_idx = 0, obj_id,
\* points, labels): the object's prompts are replaced by the list handed in;
\* a new object id is registered after the known ones
AddNewPoints(st, obj_id, pts) ==
    IF \E x \in DOMAIN st : st[x].obj_id = obj_id
    THEN [x \in DOMAIN st |-> IF st[x].obj_id = obj_id
                              THEN [obj_id |-> obj_id, points |-> pts]
                              ELSE st[x]]
    ELSE Append(st, [obj_id |-> obj_id, points |-> pts])

\* the mask logits add_new_points_or_box returns: one per registered object
MaskLogits(st) == [x \in DOMAIN st |-> Track(media, st[x].points, 0)]

\* Segmenter._process_keyword.onclick
onclick_image(p, in_main) ==
    /\ mode = "image" /\ pc = "session"
    /\ clicks < MaxPoints
    /\ IF in_main
       THEN /\ points' = Append(points, p)
            /\ clicks' = clicks + 1
            /\ mask' = <<Predict(media, Append(points, p))>>
            /\ lastOp' = "onclick"
       ELSE UNCHANGED <<points, mask, clicks, lastOp>>
    /\ UNCHANGED <<compositor, game, encoder, report, inputs, pc, kw, accepted, resets, cleared, stores, outputs,
                   outcome>>

\* VideoSegmenter._process_keyword.onclick
onclick_video(p) ==
    /\ mode = "video" /\ pc = "session"
    /\ clicks < MaxPoints
    /\ clicks' = clicks + 1
    /\ points' = Append(points, p)
    /\ inference_state' = AddNewPoints(inference_state, Len(masks) + 1, Append(points, p))
    /\ mask' = <<MaskLogits(inference_state')>>
    /\ lastOp' = "onclick"
    /\ UNCHANGED <<compositor, game, encoder, report, inputs, pc, kw, accepted, resets, cleared, masks, video_segments,
                   mask_files, outputs, outcome>>

\* Segmenter._process_keyword.onclick when self.predictor.predict raises:
\* the point is already in the list, the candidate is not replaced; the
\* exception leaves the callback and the event loop of the window, which
\* reports it, goes on
onclick_image_fails(p) ==
    /\ mode = "image" /\ pc = "session"
    /\ clicks < MaxPoints
    /\ faults < MaxFaults
    /\ clicks' = clicks + 1
    /\ faults' = faults + 1
    /\ points' = Append(points, p)
    /\ lastOp' = "onclick_fails"
    /\ UNCHANGED <<compositor, game, encoder, report, inputs, pc, kw, mask, accepted, resets, cleared, stores,
                   artifacts, metadata, mask_keywords, unreadable_frames, outcome>>

\* VideoSegmenter._process_keyword.onclick when add_new_points_or_box
\* raises: as in image mode; the predictor may or may not have registered
\* the prompts of the object before it raised
onclick_video_fails(p, registered) ==
    /\ mode = "video" /\ pc = "session"
    /\ clicks < MaxPoints
    /\ faults < MaxFaults
    /\ clicks' = clicks + 1
    /\ faults' = faults + 1
    /\ points' = Append(points, p)
    /\ inference_state' =
          IF registered
          THEN AddNewPoints(inference_state, Len(masks) + 1, Append(points, p))
          ELSE inference_state
    /\ lastOp' = "onclick_fails"
    /\ UNCHANGED <<compositor, game, encoder, report, inputs, pc, kw, mask, accepted, resets, cleared, masks,
                   video_segments, mask_files, artifacts, metadata, mask_keywords, unreadable_frames,
                   outcome>>

\* the mask on_accept stores: the candidate (image), masks[0] > 0.0 (video)
AcceptedMask == IF mode = "image" THEN mask[1] ELSE mask[1][1]

\* an on_accept with plt.close() outside the test of the candidate
on_accept_always_closing ==
    /\ pc = "session"
    /\ IF mask # None
       THEN /\ masks' = DictSet(masks, keyword, AcceptedMask)
            /\ accepted' = TRUE
            /\ pc' = "post"
       ELSE /\ pc' = "post"
            /\ UNCHANGED <<masks, accepted>>
    /\ lastOp' = "on_accept"
    /\ UNCHANGED <<compositor, game, encoder, report, inputs, kw, points, mask, resets, clicks, cleared, video_segments,
                   inference_state, mask_files, outputs, outcome>>

\* _process_keyword.on_accept of both classes; plt.close() ends plt.show()
on_accept ==
    /\ pc = "session"
    /\ IF mask # None
       THEN /\ masks' = DictSet(masks, keyword, AcceptedMask)
            /\ accepted' = TRUE
            /\ pc' = "post"
       ELSE UNCHANGED <<masks, accepted, pc>>
    /\ lastOp' = "on_accept"
    /\ UNCHANGED <<compositor, game, encoder, report, inputs, kw, points, mask, resets, clicks, cleared, video_segments,
                   inference_state, mask_files, outputs, outcome>>

\* a reset that clears the points and leaves the candidate on display
on_reset_keeps_candidate ==
    /\ pc = "session"
    /\ resets < MaxResets
    /\ resets' = resets + 1
    /\ cleared' = cleared + Len(points)
    /\ points' = <<>>
    /\ lastOp' = "on_reset"
    /\ UNCHANGED <<compositor, game, encoder, report, inputs, pc, kw, mask, accepted, clicks, stores, outputs, outcome>>

\* _process_keyword.on_reset of both classes
on_reset ==
    /\ pc = "session"
    /\ resets < MaxResets
    /\ resets' = resets + 1
    /\ cleared' = cleared + Len(points)
    /\ points' = <<>>
    /\ mask' = None
    /\ lastOp' = "on_reset"
    /\ UNCHANGED <<compositor, game, encoder, report, inputs, pc, kw, accepted, clicks, stores, outputs, outcome>>

\* the user closes the window: plt.show() returns with accepted[0] False
close_window ==
    /\ pc = "session"
    /\ pc' = "post"
    /\ lastOp' = "close_window"
    /\ UNCHANGED <<compositor, game, encoder, report, inputs, kw, session, stores, outputs, outcome>>

(***************************************************************************)
(* The rest of _process_keyword, after plt.show() has returned.            *)
(***************************************************************************)
\* the entry into the next keyword's session, or into generation
NextKeyword ==
    /\ kw' = kw + 1
    /\ pc' = IF kw < Len(keywords) THEN "session" ELSE "generate"
    /\ points' = <<>>
    /\ mask' = None
    /\ accepted' = FALSE
    /\ outcome' = Append(outcome, IF accepted THEN "accepted" ELSE "abandoned")

\* f[k] = v for a function used as an unordered dict
Put(f, k, v) == [x \in DOMAIN f \cup {k} |-> IF x = k THEN v ELSE f[x]]

\* Segmenter._process_keyword: np.save of the accepted mask
finish_keyword_image ==
    /\ mode = "image" /\ pc = "post"
    /\ mask_files' = IF accepted THEN Put(mask_files, keyword, DictGet(masks, keyword))
                     ELSE mask_files
    /\ NextKeyword
    /\ lastOp' = "finish_keyword"
    /\ UNCHANGED <<compositor, game, encoder, report, inputs, resets, clicks, cleared, masks, video_segments, inference_state,
                   outputs>>

Frames == 0..(NumFrames - 1)

ObjIds(st) == {st[x].obj_id : x \in DOMAIN st}

PointsOf(st, obj_id) == st[CHOOSE x \in DOMAIN st : st[x].obj_id = obj_id].points

\* what predictor.propagate_in_video(inference_state) streams, collected as
\* video_segments[out_frame_idx][out_obj_id]; the stream leaves out the
\* frames in skipped and the (frame, object) entries in dropped
Propagate(st, skipped, dropped) ==
    [f \in Frames \ skipped |->
        [o \in {x \in ObjIds(st) : <<f, x>> \notin dropped} |->
            Track(media, PointsOf(st, o), f)]]

\* VideoSegmenter._process_keyword: propagation of an accepted keyword
finish_keyword_video(skipped, dropped) ==
    /\ mode = "video" /\ pc = "post"
    /\ Cardinality(skipped) + Cardinality(dropped) <= MaxFaults - faults
    /\ accepted \/ (skipped = {} /\ dropped = {})
    /\ faults' = faults + Cardinality(skipped) + Cardinality(dropped)
    /\ video_segments' =
          IF accepted
          THEN Put(video_segments, keyword, Propagate(inference_state, skipped, dropped))
          ELSE video_segments
    /\ NextKeyword
    /\ lastOp' = "finish_keyword"
    /\ UNCHANGED <<compositor, game, encoder, report, inputs, resets, clicks, cleared, masks, inference_state, mask_files,
                   artifacts, metadata, mask_keywords, unreadable_frames>>

\* VideoSegmenter._process_keyword: propagate_in_video raises; nothing
\* catches it before process_video, which returns {}
propagate_fails ==
    /\ mode = "video" /\ pc = "post"
    /\ accepted
    /\ pc' = "aborted"
    /\ lastOp' = "propagate_fails"
    /\ outcome' = Append(outcome, "failed")
    /\ UNCHANGED <<compositor, game, encoder, report, inputs, kw, session, stores, outputs>>

(***************************************************************************)
(* _generate_combinations.                                                 *)
(***************************************************************************)
\* keywords_with_masks = list(self.masks.keys())
keywords_with_masks == DictKeys(masks)

num_masks == Len(keywords_with_masks)

total_combinations == Pow2(num_masks)

\* the positions j of binary with digit '1'
Ones(binary) == {j \in 0..(Len(binary) - 1) : binary[j + 1] = "1"}

\* Segmenter: the inner loop over enumerate(binary), from position j on;
\* every selected mask is applied to the result of the earlier ones
RECURSIVE ApplyImage(_, _, _)
ApplyImage(binary, j, result_image) ==
    IF j >= Len(binary) THEN result_image
    ELSE ApplyImage(binary, j + 1,
            IF binary[j + 1] = "1"
            THEN Pixelate(result_image, DictGet(masks, keywords_with_masks[j + 1]))
            ELSE result_image)

\* Segmenter: one iteration of the loop over range(total_combinations)
ImageCombination(i, ext) ==
    LET binary == FormatBinary(i, num_masks)
    IN [i |-> <<i>>,
        blurred_indices |-> Ones(binary),
        key |-> CombinationKey(Ones(binary), num_masks),
        ext |-> ext,
        from |-> <<0>>,
        frames |-> <<ApplyImage(binary, 0, SourceFrame(media, 0))>>]

\* the first i whose iteration raises: PIL refuses a resize to a size with
\* a zero component, which happens as soon as one mask is selected
FirstRaising == IF num_masks > 0 /\ ResizeFails(media.w, media.h)
                THEN 1 ELSE total_combinations

\* the ways the saves of one generation can end with at most budget
\* failures: a function from the failing positions to how each failed
SaveFailures(positions, kinds, budget) ==
    UNION {[bad -> kinds] :
             bad \in {b \in SUBSET positions : Cardinality(b) <= budget}}

\* Segmenter._generate_combinations; failed[i] tells how the WEBP save of
\* combination i failed: saved as PNG instead (".png") or not at all
generate_combinations_image ==
    /\ mode = "image" /\ pc = "generate"
    /\ \E generated \in {[x \in 1..FirstRaising |-> ImageCombination(x - 1, ".webp")]},
          failed \in SaveFailures(1..FirstRaising, {".png", "none"},
                                  MaxFaults - faults) :
            /\ faults' = faults + Cardinality(DOMAIN failed)
            /\ artifacts' = [x \in DOMAIN generated |->
                                IF x \in DOMAIN failed
                                THEN [generated[x] EXCEPT !.ext = failed[x]]
                                ELSE generated[x]]
    /\ pc' = IF FirstRaising < total_combinations THEN "aborted" ELSE "metadata"
    /\ lastOp' = "generate_combinations"
    /\ UNCHANGED <<compositor, game, encoder, report, inputs, kw, session, stores, metadata, mask_keywords, unreadable_frames,
                   outcome>>

\* VideoSegmenter: the inner loop over enumerate(binary) for frame
\* frame_idx, from position j on; acc is [img, blurred_indices, raised]
RECURSIVE ApplyVideo(_, _, _, _)
ApplyVideo(binary, j, frame_idx, acc) ==
    IF j >= Len(binary) \/ acc.raised THEN acc
    ELSE LET kwd == keywords_with_masks[j + 1]
             obj_id == j + 1
             segs == video_segments[kwd]
         IN ApplyVideo(binary, j + 1, frame_idx,
              IF binary[j + 1] # "1" THEN acc
              ELSE IF frame_idx \notin DOMAIN segs THEN acc
              ELSE IF obj_id \notin DOMAIN segs[frame_idx] THEN acc
              ELSE IF ResizeFails(media.w, media.h) THEN [acc EXCEPT !.raised = TRUE]
              ELSE [img |-> Pixelate(acc.img, segs[frame_idx][obj_id]),
                    blurred_indices |-> acc.blurred_indices \cup {j},
                    raised |-> FALSE])

\* VideoSegmenter: one iteration of the loop over range(total_combinations)
VideoCombination(i, frame_idx) ==
    ApplyVideo(FormatBinary(i, num_masks), 0, frame_idx,
               [img |-> SourceFrame(media, frame_idx), blurred_indices |-> {},
                raised |-> FALSE])

\* combination_frames[combination_key].append(result_image), for the
\* iterations todo = <<frame_idx, i>>, ... in the order of the two loops
RECURSIVE CombinationFrames(_, _)
CombinationFrames(todo, combination_frames) ==
    IF todo = <<>> \/ combination_frames.raised THEN combination_frames
    ELSE LET frame_idx == todo[1][1]
             i == todo[1][2]
             c == VideoCombination(i, frame_idx)
             key == CombinationKey(c.blurred_indices, num_masks)
             d == combination_frames.d
             old == IF DictHas(d, key) THEN DictGet(d, key)
                    ELSE [blurred_indices |-> c.blurred_indices,
                          frames |-> <<>>, from |-> <<>>, i |-> <<>>]
         IN IF c.raised THEN [combination_frames EXCEPT !.raised = TRUE]
            ELSE CombinationFrames(Tail(todo),
                   [d |-> DictSet(d, key,
                            [old EXCEPT !.frames = Append(@, c.img),
                                        !.from = Append(@, frame_idx),
                                        !.i = Append(@, i)]),
                    raised |-> FALSE])

\* loops that give up when a frame file cannot be read: no iteration at
\* all unless every frame is readable
IterationsAllOrNothing(frame_idx, unreadable) ==
    IF unreadable # {} THEN <<>>
    ELSE [x \in 1..((NumFrames - frame_idx) * total_combinations) |->
            <<frame_idx + ((x - 1) \div total_combinations),
              (x - 1) % total_combinations>>]

\* the iterations of the two nested loops, frames whose file cannot be
\* read (cv2.imread gives None) left out
RECURSIVE Iterations(_, _)
Iterations(frame_idx, unreadable) ==
    IF frame_idx >= NumFrames THEN <<>>
    ELSE (IF frame_idx \in unreadable THEN <<>>
          ELSE [x \in 1..total_combinations |-> <<frame_idx, x - 1>>])
         \o Iterations(frame_idx + 1, unreadable)

\* the codecs write_video tries, in this order
codecs == <<[codec |-> "avc1", ext |-> ".mp4"],
            [codec |-> "mp4v", ext |-> ".mp4"],
            [codec |-> "XVID", ext |-> ".avi"]>>

\* write_video: tried[c] tells whether candidate c yields a non-empty
\* file; the result is the extension of the first that does, "none" when
\* all fail (RuntimeError, caught by _generate_combinations)
write_video(tried) ==
    IF \E c \in DOMAIN codecs : tried[c]
    THEN codecs[CHOOSE c \in DOMAIN codecs :
                    tried[c] /\ \A b \in 1..(c - 1) : ~tried[b]].ext
    ELSE "none"

\* the results of the three candidates when the primary codec fails
CodecFailures == {t \in [DOMAIN codecs -> BOOLEAN] : ~t[1]}

AllWork == [c \in DOMAIN codecs |-> TRUE]

\* a generation whose call of write_video is not inside try/except: the
\* first combination that no codec can write ends the run
generate_combinations_video_unguarded ==
    /\ mode = "video" /\ pc = "generate"
    /\ \E unreadable \in {u \in SUBSET (Frames \ {0}) :
                              Cardinality(u) <= MaxFaults - faults} :
         \E cf \in {CombinationFrames(Iterations(0, unreadable),
                                      [d |-> <<>>, raised |-> FALSE])} :
            \E failed \in SaveFailures(DOMAIN cf.d, CodecFailures,
                             MaxFaults - faults - Cardinality(unreadable)) :
              /\ unreadable_frames' = unreadable
              /\ faults' = faults + Cardinality(unreadable)
                                  + Cardinality(DOMAIN failed)
              /\ artifacts' =
                    IF cf.raised THEN <<>>
                    ELSE [x \in {y \in DOMAIN cf.d :
                                   \A z \in DOMAIN failed :
                                      z <= y => write_video(failed[z]) # "none"} |->
                            [i |-> cf.d[x].v.i,
                             blurred_indices |-> cf.d[x].v.blurred_indices,
                             key |-> cf.d[x].k,
                             ext |-> write_video(IF x \in DOMAIN failed
                                                 THEN failed[x] ELSE AllWork),
                             from |-> cf.d[x].v.from,
                             frames |-> cf.d[x].v.frames]]
              /\ pc' = IF \/ cf.raised
                          \/ \E z \in DOMAIN failed : write_video(failed[z]) = "none"
                       THEN "aborted" ELSE "metadata"
    /\ lastOp' = "generate_combinations"
    /\ UNCHANGED <<compositor, game, encoder, report, inputs, kw, session, stores, metadata, mask_keywords, outcome>>

\* VideoSegmenter._generate_combinations; unreadable are the frames whose
\* file cannot be read, failed[x] the candidates' results for the
\* combination at position x of combination_frames when its primary codec
\* fails
generate_combinations_video ==
    /\ mode = "video" /\ pc = "generate"
    /\ \E unreadable \in {u \in SUBSET (Frames \ {0}) :
                              Cardinality(u) <= MaxFaults - faults} :
         \E cf \in {CombinationFrames(Iterations(0, unreadable),
                                      [d |-> <<>>, raised |-> FALSE])} :
            \E failed \in SaveFailures(DOMAIN cf.d, CodecFailures,
                             MaxFaults - faults - Cardinality(unreadable)) :
              /\ unreadable_frames' = unreadable
              /\ faults' = faults + Cardinality(unreadable)
                                  + Cardinality(DOMAIN failed)
              /\ artifacts' =
                    IF cf.raised THEN <<>>
                    ELSE [x \in DOMAIN cf.d |->
                            [i |-> cf.d[x].v.i,
                             blurred_indices |-> cf.d[x].v.blurred_indices,
                             key |-> cf.d[x].k,
                             ext |-> write_video(IF x \in DOMAIN failed
                                                 THEN failed[x] ELSE AllWork),
                             from |-> cf.d[x].v.from,
                             frames |-> cf.d[x].v.frames]]
              /\ pc' = IF cf.raised THEN "aborted" ELSE "metadata"
    /\ lastOp' = "generate_combinations"
    /\ UNCHANGED <<compositor, game, encoder, report, inputs, kw, session, stores, metadata, mask_keywords, outcome>>

(***************************************************************************)
(* _save_metadata (the same code in both classes).                         *)
(***************************************************************************)
\* metadata.json: json.dump writes the int keys of metadata as strings;
\* t is the JSON type of the value (the key of a JSON object is a string)
MetadataJson == [x \in DOMAIN keywords_with_masks |->
                    [k |-> Str(x - 1), v |-> keywords_with_masks[x],
                     t |-> "string"]]

\* keywords.json: {keyword: i for i, keyword in metadata.items()}
KeywordsJson == [x \in DOMAIN keywords_with_masks |->
                    [k |-> keywords_with_masks[x], v |-> x - 1,
                     t |-> "number"]]

save_metadata ==
    /\ pc = "metadata"
    /\ metadata' = <<MetadataJson>>
    /\ mask_keywords' = <<KeywordsJson>>
    /\ pc' = "done"
    /\ lastOp' = "save_metadata"
    /\ UNCHANGED <<compositor, game, encoder, report, inputs, kw, session, stores, artifacts, faults,
                   unreadable_frames, outcome>>

(***************************************************************************)
(* process_image / process_video and main.                                 *)
(***************************************************************************)
\* the extension process_image / process_video look for in combinations_dir
GlobExt == IF mode = "image" THEN ".webp" ELSE ".mp4"

\* the map process_image / process_video return: the files of the globbed
\* extension, {} when an exception reached their except clause
PixelationMap ==
    IF pc # "done" THEN {}
    ELSE {[key |-> artifacts[x].key, ext |-> artifacts[x].ext] :
            x \in {y \in DOMAIN artifacts : artifacts[y].ext = GlobExt}}

\* main: the call of process_image / process_video returns, the report is
\* printed and the interpreter exits; sys.exit(1) is reached only from
\* main's own except clause, and nothing raised inside process_image /
\* process_video gets there
main ==
    /\ pc \in {"load_failed", "aborted", "done"}
    /\ pixelation_map' = <<PixelationMap>>
    /\ exit_status' = <<0>>
    /\ pc' = "exited"
    /\ lastOp' = "main"
    /\ UNCHANGED <<compositor, game, encoder, inputs, kw, session, stores, outputs, outcome>>

(***************************************************************************)
(* The specification.                                                      *)
(***************************************************************************)
Next ==
    \/ \E p \in PointChoices(media), in_main \in BOOLEAN : onclick_image(p, in_main)
    \/ \E p \in PointChoices(media) : onclick_video(p)
    \/ \E p \in PointChoices(media) : onclick_image_fails(p)
    \/ \E p \in PointChoices(media), registered \in BOOLEAN :
          onclick_video_fails(p, registered)
    \/ on_accept
    \/ on_reset
    \/ close_window
    \/ finish_keyword_image
    \/ \E skipped \in SUBSET Frames,
          dropped \in SUBSET (Frames \X ObjIds(inference_state)) :
            finish_keyword_video(skipped, dropped)
    \/ propagate_fails
    \/ generate_combinations_image
    \/ generate_combinations_video
    \/ save_metadata
    \/ main

Spec == Init /\ [][Next]_vars

(***************************************************************************)
(* write_video followed candidate by candidate.                            *)
(***************************************************************************)
\* what one candidate can do when it is tried: the writer does not open;
\* an exception is raised before anything is written; an exception is
\* raised after part of the file was written; the writer is released and
\* the file is missing, empty, or written
Attempts == {"not_opened", "raised", "raised_partial", "missing", "empty", "written"}

\* a run that is not followed: only write_video is
PipelineIdle ==
    /\ mode = "video"
    /\ keywords = <<"a">>
    /\ media = [w |-> 20, h |-> 20]
    /\ pc = "generate"
    /\ kw = 2
    /\ points = <<>> /\ mask = None /\ accepted = FALSE
    /\ resets = 0 /\ clicks = 0 /\ cleared = 0
    /\ masks = <<>> /\ video_segments = <<>> /\ inference_state = <<>>
    /\ mask_files = <<>>
    /\ artifacts = <<>> /\ metadata = None /\ mask_keywords = None
    /\ faults = 0
    /\ unreadable_frames = {}
    /\ lastOp = "init"
    /\ outcome = <<"abandoned">>
    /\ pixelation_map = None
    /\ exit_status = None

\* the call write_video(output_path, frames, fps) in a directory that
\* holds no file of that name yet
InitWriteVideo ==
    /\ PipelineIdle
    /\ GameIdle
    /\ CompositorIdle
    /\ wv_pc = "start"
    /\ wv_frames \in {0, NumFrames}
    /\ wv_env \in [DOMAIN codecs -> Attempts]
    /\ wv_idx = 0
    /\ wv_files = [e \in {codecs[c].ext : c \in DOMAIN codecs} |-> "absent"]
    /\ last_error = None
    /\ wv_log = <<>>

\* write_video: "if not frames: return", else the loop is entered
write_video_start ==
    /\ wv_pc = "start"
    /\ wv_pc' = IF wv_frames = 0 THEN "returned" ELSE "loop"
    /\ UNCHANGED <<compositor, game, pipeline, wv_frames, wv_env, wv_idx, wv_files, last_error, wv_log>>

\* the file at out_path after the candidate was tried
FileAfter(attempt, before) ==
    CASE attempt = "not_opened" -> before
      [] attempt = "raised" -> before
      [] attempt = "raised_partial" -> "nonempty"
      [] attempt = "missing" -> "absent"
      [] attempt = "empty" -> "empty"
      [] attempt = "written" -> "nonempty"

\* a loop iteration that returns as soon as the writer is released
write_video_try_unverified ==
    /\ wv_pc = "loop"
    /\ wv_idx < Len(codecs)
    /\ LET c == wv_idx + 1
           out_path == codecs[c].ext
           attempt == wv_env[c]
           after == FileAfter(attempt, wv_files[out_path])
       IN /\ wv_idx' = c
          /\ wv_log' = Append(wv_log, codecs[c].codec)
          /\ wv_files' = [wv_files EXCEPT ![out_path] = after]
          /\ last_error' = IF attempt \in {"raised", "raised_partial"}
                           THEN <<codecs[c].codec>> ELSE last_error
          /\ wv_pc' = IF attempt \in {"missing", "empty", "written"}
                      THEN "returned" ELSE "loop"
    /\ UNCHANGED <<compositor, game, pipeline, wv_frames, wv_env>>

\* write_video: one iteration of "for codec, ext in codecs"
write_video_try ==
    /\ wv_pc = "loop"
    /\ wv_idx < Len(codecs)
    /\ LET c == wv_idx + 1
           out_path == codecs[c].ext
           attempt == wv_env[c]
           after == FileAfter(attempt, wv_files[out_path])
       IN /\ wv_idx' = c
          /\ wv_log' = Append(wv_log, codecs[c].codec)
          /\ wv_files' = [wv_files EXCEPT ![out_path] = after]
          /\ last_error' = IF attempt \in {"raised", "raised_partial"}
                           THEN <<codecs[c].codec>> ELSE last_error
          /\ wv_pc' = IF /\ attempt \in {"missing", "empty", "written"}
                         /\ after = "nonempty"
                      THEN "returned" ELSE "loop"
    /\ UNCHANGED <<compositor, game, pipeline, wv_frames, wv_env>>

\* write_video: the loop is over, RuntimeError is raised
write_video_fail ==
    /\ wv_pc = "loop"
    /\ wv_idx = Len(codecs)
    /\ wv_pc' = "raised"
    /\ UNCHANGED <<compositor, game, pipeline, wv_frames, wv_env, wv_idx, wv_files, last_error, wv_log>>

NextWriteVideo ==
    \/ write_video_start
    \/ write_video_try
    \/ write_video_fail

SpecWriteVideo == InitWriteVideo /\ [][NextWriteVideo]_vars

(***************************************************************************)
(* schedule_game, stage by stage.  The files and the services are the      *)
(* environment: what each of them does in the run is fixed when the run    *)
(* starts.                                                                 *)
(***************************************************************************)
\* the game config file: absent, not JSON, without 'image', without
\* 'keywords', or complete
ConfigChoices == {"missing", "unparsable", "no_image", "no_keywords", "ok"}

\* what process_image / process_video do: raise, return {}, or return a
\* map with these file names
SegmentationChoices == {"raises", "empty", "map"}

CombinationFiles == {"0.webp", "0blur.webp"}

\* --start-time: not given, with a timezone, without a timezone
StartTimeChoices == {"none", "aware", "naive"}

DbChoices == {"ok", "connect_fails", "insert_fails"}

RedisChoices == {"ok", "connect_fails", "execute_fails"}

\* the calls of schedule_game, in the order of its text
Stages == <<"load_json_data", "process_game_media", "load_game_data",
            "load_similarity_data">>

Url(blob_name) == <<"url", blob_name>>

\* a call of schedule_game(game_file, start_time, base_dir)
InitSchedule ==
    /\ PipelineIdle
    /\ EncoderIdle
    /\ CompositorIdle
    /\ sg_pc = "load_json_data"
    /\ sg_env \in [config : ConfigChoices,
                   media_exists : BOOLEAN,
                   upload_original : BOOLEAN,
                   segmentation : SegmentationChoices,
                   upload_ok : SUBSET CombinationFiles,
                   start_time : StartTimeChoices,
                   reload : BOOLEAN,
                   db : DbChoices,
                   redis : RedisChoices]
    /\ sg_log = <<>>
    /\ media_url = None
    /\ uploaded_map = None
    /\ sg_generated = None
    /\ blobs = {}
    /\ db = [conn |-> "none", rows |-> <<>>, committed |-> FALSE,
             rolled_back |-> FALSE]
    /\ redis_store = [conn |-> "none", stored |-> FALSE]
    /\ sg_result = None
    /\ game_id = None

\* schedule_game leaves with value v
Return(v) ==
    /\ sg_pc' = "returned"
    /\ sg_result' = <<v>>

\* schedule_game: load_json_data (which returns None for a file it cannot
\* read or parse) and the checks of game_data, image_path and keywords
schedule_game_load_config ==
    /\ sg_pc = "load_json_data"
    /\ sg_log' = Append(sg_log, [stage |-> "load_json_data",
                                 ok |-> sg_env.config = "ok"])
    /\ IF sg_env.config = "ok"
       THEN sg_pc' = "process_game_media" /\ sg_result' = sg_result
       ELSE Return(FALSE)
    /\ UNCHANGED <<compositor, pipeline, encoder, sg_env, media_url, uploaded_map, sg_generated,
                   blobs, db, redis_store, game_id>>

\* a process_game_media that keeps an entry for a combination whose upload
\* failed: uploaded_map[filename] = upload_to_blob(...)
ProcessGameMediaKeepingFailed(env) ==
    IF ~env.media_exists \/ ~env.upload_original
    THEN [media_url |-> None, pixelation_map |-> None, generated |-> None,
          blobs |-> {}]
    ELSE IF env.segmentation = "raises"
    THEN [media_url |-> None, pixelation_map |-> None, generated |-> None,
          blobs |-> {<<"original">>}]
    ELSE IF env.segmentation = "empty"
    THEN [media_url |-> <<Url(<<"original">>)>>, pixelation_map |-> None,
          generated |-> <<{}>>, blobs |-> {<<"original">>}]
    ELSE [media_url |-> <<Url(<<"original">>)>>,
          pixelation_map |-> <<[f \in CombinationFiles |->
                                  IF f \in env.upload_ok
                                  THEN Url(<<"pixelated", f>>) ELSE None]>>,
          generated |-> <<CombinationFiles>>,
          blobs |-> {<<"original">>} \cup {<<"pixelated", f>> : f \in env.upload_ok}]

\* process_game_media(image_path, keywords, prompt_id, base_dir): what it
\* returns, what the segmenter handed it and which blobs it uploaded
ProcessGameMedia(env) ==
    IF ~env.media_exists \/ ~env.upload_original
    THEN [media_url |-> None, pixelation_map |-> None, generated |-> None,
          blobs |-> {}]
    ELSE IF env.segmentation = "raises"
    THEN [media_url |-> None, pixelation_map |-> None, generated |-> None,
          blobs |-> {<<"original">>}]
    ELSE IF env.segmentation = "empty"
    THEN [media_url |-> <<Url(<<"original">>)>>, pixelation_map |-> None,
          generated |-> <<{}>>, blobs |-> {<<"original">>}]
    ELSE [media_url |-> <<Url(<<"original">>)>>,
          pixelation_map |-> <<[f \in env.upload_ok |-> Url(<<"pixelated", f>>)]>>,
          generated |-> <<CombinationFiles>>,
          blobs |-> {<<"original">>} \cup {<<"pixelated", f>> : f \in env.upload_ok}]

\* a stage that goes on to load_game_data whatever process_game_media
\* returned
schedule_game_process_media_unchecked ==
    /\ sg_pc = "process_game_media"
    /\ \E r \in {ProcessGameMedia(sg_env)} :
          /\ media_url' = r.media_url
          /\ uploaded_map' = r.pixelation_map
          /\ sg_generated' = r.generated
          /\ blobs' = r.blobs
          /\ sg_log' = Append(sg_log, [stage |-> "process_game_media",
                                       ok |-> r.media_url # None])
          /\ sg_pc' = "load_game_data" /\ sg_result' = sg_result
    /\ UNCHANGED <<compositor, pipeline, encoder, sg_env, db, redis_store, game_id>>

\* schedule_game: process_game_media and "if not media_url: return False"
schedule_game_process_media ==
    /\ sg_pc = "process_game_media"
    /\ \E r \in {ProcessGameMedia(sg_env)} :
          /\ media_url' = r.media_url
          /\ uploaded_map' = r.pixelation_map
          /\ sg_generated' = r.generated
          /\ blobs' = r.blobs
          /\ sg_log' = Append(sg_log, [stage |-> "process_game_media",
                                       ok |-> r.media_url # None])
          /\ IF r.media_url # None
             THEN sg_pc' = "load_game_data" /\ sg_result' = sg_result
             ELSE Return(FALSE)
    /\ UNCHANGED <<compositor, pipeline, encoder, sg_env, db, redis_store, game_id>>

\* the truth value of a dict or None
Truthy(m) == m # None /\ DOMAIN m[1] # {}

\* a load_game_data that closes the connection at the end of its text
\* instead of in a finally clause: the early returns leave it open
LoadGameDataWithoutFinally(env, image_url, map) ==
    IF env.db = "connect_fails"
    THEN [raised |-> TRUE, game_id |-> None, db |-> db]
    ELSE IF ~env.reload
    THEN [raised |-> FALSE, game_id |-> None,
          db |-> [db EXCEPT !.conn = "open"]]
    ELSE IF env.start_time = "naive"
    THEN [raised |-> FALSE, game_id |-> None,
          db |-> [db EXCEPT !.conn = "open"]]
    ELSE IF env.db = "insert_fails"
    THEN [raised |-> FALSE, game_id |-> None,
          db |-> [db EXCEPT !.conn = "closed", !.rolled_back = TRUE]]
    ELSE [raised |-> FALSE, game_id |-> <<Len(db.rows) + 1>>,
          db |-> [db EXCEPT !.conn = "closed", !.committed = TRUE,
                            !.rows = Append(db.rows,
                               [id |-> Len(db.rows) + 1,
                                image_url |-> image_url,
                                pixelation_map |-> IF Truthy(map)
                                                   THEN map ELSE None,
                                date_active |-> IF env.start_time = "none"
                                                THEN "now" ELSE "start_time"])]]

\* load_game_data(game_path, media_url, pixelation_map, start_time): the
\* id it returns and the database afterwards; connect_to_postgres is
\* called before the try, so its exception leaves load_game_data; the
\* game file is read again (env.reload: it can still be read)
LoadGameData(env, image_url, map) ==
    IF env.db = "connect_fails"
    THEN [raised |-> TRUE, game_id |-> None, db |-> db]
    ELSE IF ~env.reload
    THEN [raised |-> FALSE, game_id |-> None,
          db |-> [db EXCEPT !.conn = "closed"]]
    ELSE IF env.start_time = "naive"
    THEN [raised |-> FALSE, game_id |-> None,
          db |-> [db EXCEPT !.conn = "closed"]]
    ELSE IF env.db = "insert_fails"
    THEN [raised |-> FALSE, game_id |-> None,
          db |-> [db EXCEPT !.conn = "closed", !.rolled_back = TRUE]]
    ELSE [raised |-> FALSE, game_id |-> <<Len(db.rows) + 1>>,
          db |-> [db EXCEPT !.conn = "closed", !.committed = TRUE,
                            !.rows = Append(db.rows,
                               [id |-> Len(db.rows) + 1,
                                image_url |-> image_url,
                                pixelation_map |-> IF Truthy(map)
                                                   THEN map ELSE None,
                                date_active |-> IF env.start_time = "none"
                                                THEN "now" ELSE "start_time"])]]

\* schedule_game: load_game_data and "if not game_id: return False"; an
\* exception is caught by the except clause of schedule_game
schedule_game_load_game_data ==
    /\ sg_pc = "load_game_data"
    /\ \E r \in {LoadGameData(sg_env, media_url, uploaded_map)} :
          /\ db' = r.db
          /\ game_id' = r.game_id
          /\ sg_log' = Append(sg_log, [stage |-> "load_game_data",
                                       ok |-> r.game_id # None])
          /\ IF r.game_id # None
             THEN sg_pc' = "load_similarity_data" /\ sg_result' = sg_result
             ELSE Return(FALSE)
    /\ UNCHANGED <<compositor, pipeline, encoder, sg_env, media_url, uploaded_map, sg_generated,
                   blobs, redis_store>>

\* schedule_game: load_similarity_data, which returns True or raises (the
\* client is closed in its finally clause once it exists)
schedule_game_load_similarity_data ==
    /\ sg_pc = "load_similarity_data"
    /\ redis_store' =
          IF sg_env.redis = "connect_fails" THEN redis_store
          ELSE [conn |-> "closed", stored |-> sg_env.redis = "ok"]
    /\ sg_log' = Append(sg_log, [stage |-> "load_similarity_data",
                                 ok |-> sg_env.redis = "ok"])
    /\ Return(sg_env.redis = "ok")
    /\ UNCHANGED <<compositor, pipeline, encoder, sg_env, media_url, uploaded_map, sg_generated,
                   blobs, db, game_id>>

NextSchedule ==
    \/ schedule_game_load_config
    \/ schedule_game_process_media
    \/ schedule_game_load_game_data
    \/ schedule_game_load_similarity_data

SpecSchedule == InitSchedule /\ [][NextSchedule]_vars

(***************************************************************************)
(* The compositing of one frame under one bitmask: the inner loop over     *)
(* enumerate(binary) of _generate_combinations, position by position, for  *)
(* frames and masks of any content.                                        *)
(***************************************************************************)
CompositorSizes == {[w |-> 20, h |-> 20], [w |-> 40, h |-> 20], [w |-> 45, h |-> 25]}

\* the mask a position has in the frame: none (video: no entry in
\* video_segments for the frame or the object), entirely false, entirely
\* true, or the region around some prompts
MaskChoices(m) ==
    {None,
     [p \in Pixels(m.w, m.h) |-> FALSE],
     [p \in Pixels(m.w, m.h) |-> TRUE]}
    \cup {Track(m, <<q>>, 0) : q \in PointChoices(m)}
    \cup {Track(m, <<<<m.w \div 4, m.h \div 4>>>>, 3)}

MaskLists(m) ==
    UNION {[1..n -> MaskChoices(m)] : n \in 0..MaxKeywords}

\* result_image = self.image.copy() / frame.copy(), for some frame, masks
\* and iteration i of the loop over range(total_combinations)
InitCompositor ==
    /\ PipelineIdle
    /\ EncoderIdle
    /\ GameIdle
    /\ cp_pc = "loop"
    /\ \E m \in CompositorSizes, f \in Frames :
          /\ cp_source = SourceFrame(m, f)
          /\ cp_masks \in MaskLists(m)
    /\ \E i \in 0..(Pow2(Len(cp_masks)) - 1) :
          cp_binary = FormatBinary(i, Len(cp_masks))
    /\ cp_j = 0
    /\ cp_result = cp_source
    /\ cp_trace = <<>>

\* one iteration of "for j, digit in enumerate(binary)": a position whose
\* digit is '1' and which has a mask in the frame is pixelated
compositor_step ==
    /\ cp_pc = "loop"
    /\ cp_j < Len(cp_binary)
    /\ \E r \in {IF cp_binary[cp_j + 1] = "1" /\ cp_masks[cp_j + 1] # None
                  THEN Pixelate(cp_result, cp_masks[cp_j + 1])
                  ELSE cp_result} :
          /\ cp_result' = r
          /\ cp_trace' = Append(cp_trace, r)
    /\ cp_j' = cp_j + 1
    /\ UNCHANGED <<pipeline, encoder, game, cp_pc, cp_source, cp_masks, cp_binary>>

\* the inner loop is over: result_image is the composite
compositor_done ==
    /\ cp_pc = "loop"
    /\ cp_j = Len(cp_binary)
    /\ cp_pc' = "done"
    /\ UNCHANGED <<pipeline, encoder, game, cp_source, cp_masks, cp_binary, cp_j,
                   cp_result, cp_trace>>

NextCompositor ==
    \/ compositor_step
    \/ compositor_done

SpecCompositor == InitCompositor /\ [][NextCompositor]_vars

(***************************************************************************)
(* Reading an artifact name back.                                          *)
(***************************************************************************)
\* key.split("_"), with no part for the empty key
RECURSIVE Split(_)
Split(s) ==
    IF \A x \in DOMAIN s : s[x] # "_" THEN <<s>>
    ELSE LET k == CHOOSE x \in DOMAIN s : s[x] = "_" /\ \A y \in 1..(x - 1) : s[y] # "_"
         IN <<SubSeq(s, 1, k - 1)>> \o Split(SubSeq(s, k + 1, Len(s)))

KeyParts(key) == IF key = <<>> THEN <<>> ELSE Split(key)

Blur == <<"b", "l", "u", "r">>

EndsWithBlur(part) ==
    Len(part) >= 4 /\ SubSeq(part, Len(part) - 3, Len(part)) = Blur

\* every part is its own position, in decimal, with or without "blur"
WellFormedKey(key) ==
    \A x \in DOMAIN KeyParts(key) :
        KeyParts(key)[x] \in {Str(x - 1), Str(x - 1) \o Blur}

\* the positions a key marks "blur"
DecodedBits(key) ==
    {j \in 0..(Len(KeyParts(key)) - 1) : EndsWithBlur(KeyParts(key)[j + 1])}

RECURSIVE SumOfWeights(_, _)
SumOfWeights(bits, n) ==
    IF bits = {} THEN 0
    ELSE LET j == CHOOSE b \in bits : TRUE
         IN Pow2(n - 1 - j) + SumOfWeights(bits \ {j}, n)

\* the integer a key encodes: position 0 is the most significant digit
DecodedInt(key) == SumOfWeights(DecodedBits(key), Len(KeyParts(key)))

\* digit j (0 = most significant) of the n-digit binary rendering of i
DigitOf(i, n, j) == (i \div Pow2(n - 1 - j)) % 2

GenerationRan == lastOp \in {"generate_combinations", "save_metadata"}

(***************************************************************************)
(* The claims.                                                             *)
(***************************************************************************)
\* C1: once generation has run on n stored masks, in image or video mode,
\* it has produced exactly 2^n artifacts (whatever format each was saved
\* in), their names are pairwise distinct and well formed, and the names
\* decode to distinct integers of 0..2^n - 1.
C1_ExactlyTwoToTheN ==
    GenerationRan =>
        /\ Len(artifacts) = Pow2(num_masks)
        /\ \A x \in DOMAIN artifacts :
              /\ WellFormedKey(artifacts[x].key)
              /\ DecodedInt(artifacts[x].key) \in 0..(Pow2(num_masks) - 1)
              /\ \A y \in DOMAIN artifacts :
                    x # y => /\ artifacts[x].key # artifacts[y].key
                             /\ DecodedInt(artifacts[x].key) # DecodedInt(artifacts[y].key)

\* the image the key of an artifact describes: the source with the masks of
\* the positions in bits pixelated, position after position from j on
RECURSIVE PixelatedAt(_, _, _)
PixelatedAt(bits, j, img) ==
    IF j >= num_masks THEN img
    ELSE PixelatedAt(bits, j + 1,
            IF j \in bits THEN Pixelate(img, masks[j + 1].v) ELSE img)

TwoKeywordKeys == << <<"0", "_", "1">>,
                     <<"0", "_", "1", "b", "l", "u", "r">>,
                     <<"0", "b", "l", "u", "r", "_", "1">>,
                     <<"0", "b", "l", "u", "r", "_", "1", "b", "l", "u", "r">> >>

FrameWasRead(f) ==
    \E x \in DOMAIN artifacts : \E pos \in DOMAIN artifacts[x].from :
        artifacts[x].from[pos] = f

\* the frames read during generation, in extraction order, from f on
RECURSIVE ReadFrames(_)
ReadFrames(f) ==
    IF f >= NumFrames THEN <<>>
    ELSE (IF FrameWasRead(f) THEN <<f>> ELSE <<>>) \o ReadFrames(f + 1)

\* C3: the artifact in which no position is marked "blur" holds the source
\* image (image mode), one unmodified source frame per frame read, in
\* extraction order (video mode), whatever the number of stored masks.
C3_IdentityVariant ==
    \A x \in DOMAIN artifacts :
        DecodedBits(artifacts[x].key) = {} =>
            /\ Len(artifacts[x].frames) = Len(ReadFrames(0))
            /\ \A pos \in DOMAIN artifacts[x].frames :
                  artifacts[x].frames[pos] = SourceFrame(media, ReadFrames(0)[pos])

\* the sessions that have ended, by position in the keyword list
Ended == DOMAIN outcome

AcceptedSessions == {x \in Ended : outcome[x] = "accepted"}

\* C4: when the session of a keyword ends, either it was accepted and
\* exactly one mask is stored for the keyword, or it was not accepted and
\* no mask is stored for the keyword; and the mask store changes only by
\* an accept with a candidate present.
C4_SessionOutcome ==
    /\ [](pc = "post" =>
            IF accepted
            THEN Cardinality({x \in DOMAIN masks : masks[x].k = keyword}) = 1
            ELSE ~DictHas(masks, keyword))
    /\ [][masks' # masks => lastOp' = "on_accept" /\ mask # None]_vars

\* the keywords of the accepted sessions, in the order of their sessions
RECURSIVE AcceptedFrom(_)
AcceptedFrom(x) ==
    IF x > Len(outcome) THEN <<>>
    ELSE (IF outcome[x] = "accepted" THEN <<keywords[x]>> ELSE <<>>)
         \o AcceptedFrom(x + 1)

\* C5: after generation, a keyword whose session ended without accept has
\* no mask and no metadata entry, the accepted keywords hold the bit
\* positions 0..n-1 in the order of their acceptance, and the number of
\* artifacts is 2^(number of accepted keywords).
C5_AbandonedKeywordsDoNotParticipate ==
    GenerationRan =>
        /\ \A x \in Ended \ AcceptedSessions :
              /\ ~DictHas(masks, keywords[x])
              /\ metadata # None =>
                    \A y \in DOMAIN metadata[1] : metadata[1][y].v # keywords[x]
        /\ keywords_with_masks = AcceptedFrom(1)
        /\ Len(artifacts) = Pow2(Cardinality(AcceptedSessions))

\* whether generation finds a propagated mask of position j in frame f
HasMask(j, f) ==
    /\ f \in DOMAIN video_segments[keywords_with_masks[j + 1]]
    /\ (j + 1) \in DOMAIN video_segments[keywords_with_masks[j + 1]][f]

\* source frame f with the regions of the positions in bits pixelated,
\* position after position from j on; a position without a propagated
\* mask in frame f leaves the frame as it is
RECURSIVE PixelatedFrame(_, _, _, _)
PixelatedFrame(bits, j, f, img) ==
    IF j >= num_masks THEN img
    ELSE PixelatedFrame(bits, j + 1, f,
            IF j \in bits /\ HasMask(j, f)
            THEN Pixelate(img, video_segments[keywords_with_masks[j + 1]][f][j + 1])
            ELSE img)

\* C6: in video mode every combination holds one frame per source frame
\* read, in extraction order: the frame at position f is the f-th source
\* frame composited under the bitmask its key encodes.
C6_OneFramePerSourceFrame ==
    mode = "video" =>
        \A x \in DOMAIN artifacts :
            /\ Len(artifacts[x].frames) = Len(ReadFrames(0))
            /\ \A pos \in DOMAIN artifacts[x].frames :
                  artifacts[x].frames[pos] =
                      PixelatedFrame(DecodedBits(artifacts[x].key), 0,
                                     ReadFrames(0)[pos],
                                     SourceFrame(media, ReadFrames(0)[pos]))

\* C7: in video mode, when position j has no propagated mask in frame f,
\* generation does not fail and every variant whose key marks j "blur"
\* still holds frame f, with the region of j left as it is and the regions
\* of the other marked positions pixelated, its other frames being
\* composited under the whole bitmask.
C7_MissingMaskLeavesRegion ==
    (mode = "video" /\ GenerationRan /\ ~ResizeFails(media.w, media.h)) =>
        /\ pc # "aborted"
        /\ \A x \in DOMAIN artifacts :
              \A j \in DecodedBits(artifacts[x].key) :
                 \A f \in Frames :
                    FrameWasRead(f) =>
                       \E pos \in DOMAIN artifacts[x].frames :
                          /\ artifacts[x].from[pos] = f
                          /\ artifacts[x].frames[pos] =
                                PixelatedFrame(DecodedBits(artifacts[x].key), 0, f,
                                               SourceFrame(media, f))

\* C8: in video mode a propagation failure after an accept leaves the run
\* going and removes the mask of the keyword from the mask store.
C8_PropagationFailureAbandons ==
    lastOp = "propagate_fails" =>
        /\ pc # "aborted"
        /\ ~DictHas(masks, keyword)

\* C9: a reset clears the accumulated points and the candidate mask, keeps
\* the session of the same keyword open and not accepted, and leaves the
\* mask store, the propagated segments, the mask files, the artifacts and
\* the metadata as they were.
C9_ResetEffect ==
    [][lastOp' = "on_reset" =>
          /\ points' = <<>> /\ mask' = None
          /\ accepted' = FALSE /\ pc' = "session" /\ kw' = kw
          /\ masks' = masks /\ video_segments' = video_segments
          /\ mask_files' = mask_files /\ artifacts' = artifacts
          /\ metadata' = metadata /\ mask_keywords' = mask_keywords]_vars

\* C9 witness: the session of a later keyword has just been reset after
\* points were clicked, the mask of an earlier keyword being stored
C9_Witness ==
    /\ lastOp = "on_reset" /\ cleared > 0
    /\ points = <<>> /\ mask = None
    /\ kw = 2 /\ masks # <<>>
    /\ mode = "video" => DOMAIN video_segments # {}

\* C10: a stored mask is never changed or removed by any later step.
C10_AcceptedMaskImmutable ==
    [][\A x \in DOMAIN masks :
          /\ DictHas(masks', masks[x].k)
          /\ DictGet(masks', masks[x].k) = masks[x].v]_vars

\* C11: write_video tries avc1, mp4v, XVID in this order; a candidate is
\* tried only after every earlier one failed; it returns after the first
\* candidate whose file exists and is non-empty, which is the last one it
\* tried; it raises only after all three failed; and the candidate it ends
\* with is the one generation takes it to have ended with.
C11_CodecOrder ==
    /\ [](/\ wv_log = SubSeq(<<"avc1", "mp4v", "XVID">>, 1, Len(wv_log))
          /\ \A k \in DOMAIN wv_log : \A b \in 1..(k - 1) : wv_env[b] # "written"
          /\ (wv_pc = "returned" /\ wv_frames > 0) =>
                /\ wv_log # <<>>
                /\ wv_env[Len(wv_log)] = "written"
                /\ wv_files[<<".mp4", ".mp4", ".avi">>[Len(wv_log)]] = "nonempty"
                /\ write_video([c \in DOMAIN codecs |-> wv_env[c] = "written"])
                      = <<".mp4", ".mp4", ".avi">>[Len(wv_log)]
          /\ wv_pc = "raised" =>
                /\ Len(wv_log) = 3
                /\ \A b \in 1..3 : wv_env[b] # "written"
                /\ write_video([c \in DOMAIN codecs |-> wv_env[c] = "written"]) = "none")
    /\ [][(wv_pc \in {"returned", "raised"}) => (wv_log' = wv_log)]_vars

\* C11 witness: the two MP4 candidates failed, one of them leaving an
\* empty file, and write_video returned after XVID wrote the AVI file
C11_Witness ==
    /\ wv_pc = "returned"
    /\ wv_log = <<"avc1", "mp4v", "XVID">>
    /\ wv_files[".avi"] = "nonempty"
    /\ wv_files[".mp4"] = "empty"

\* C12: in video mode, when no codec can write some combination, the run
\* goes on to the metadata, every iteration of the combination loop is
\* still filed under an artifact, and only combinations whose own encoding
\* failed are left without a file.
C12_EncodeFailureSkipsOne ==
    (/\ mode = "video" /\ GenerationRan
     /\ ~ResizeFails(media.w, media.h)) =>
        /\ pc # "aborted"
        /\ \A i \in 0..(total_combinations - 1) :
              \E x \in DOMAIN artifacts : \E pos \in DOMAIN artifacts[x].i :
                  artifacts[x].i[pos] = i
        /\ Cardinality({x \in DOMAIN artifacts : artifacts[x].ext = "none"}) <= faults

\* C12 witness: of the two combinations of one accepted keyword the first
\* could not be written by any codec and the second was encoded
C12_Witness ==
    /\ mode = "video" /\ lastOp = "generate_combinations" /\ pc = "metadata"
    /\ Len(artifacts) = 2
    /\ artifacts[1].ext = "none"
    /\ artifacts[2].ext = ".mp4"
    /\ Len(artifacts[2].frames) = NumFrames

\* C13: the command-line run exits with a non-zero status when the media
\* cannot be loaded and when it produced no combination.
C13_ExitStatus ==
    (pc = "exited" /\ (media = Unloadable \/ pixelation_map[1] = {})) =>
        exit_status # <<0>>

\* C14: when the adapter fails on a click, the session of the keyword is
\* over without accept (the keyword ends with no mask and acquisition goes
\* on with the next keyword) and the run is not aborted.
C14_AdapterFailureAbandons ==
    lastOp = "onclick_fails" =>
        /\ pc = "post"
        /\ ~accepted
        /\ mask = None

\* the members of a JSON object whose key is the JSON value <<t, v>>: a
\* key of a JSON object is a string, so a number finds nothing
JsonLookup(doc, t, v) ==
    {x \in DOMAIN doc : t = "string" /\ doc[x].k = v}

\* C15: the two persisted mappings are exact inverses: looking up in
\* keywords.json the value of index i of metadata.json gives i, looking up
\* in metadata.json the value of keyword w of keywords.json gives w; and
\* both hold exactly the accepted keywords, the index of a keyword being
\* its position in acceptance order.
C15_PersistedMappingsAreInverses ==
    lastOp = "save_metadata" =>
        LET md == metadata[1]
            kj == mask_keywords[1]
        IN /\ \A x \in DOMAIN md :
                 \E y \in JsonLookup(kj, md[x].t, md[x].v) :
                     kj[y].t = "string" /\ kj[y].v = md[x].k
           /\ \A y \in DOMAIN kj :
                 \E x \in JsonLookup(md, kj[y].t, kj[y].v) :
                     md[x].t = "string" /\ md[x].v = kj[y].k
           /\ Len(md) = Len(kj)
           /\ \A x \in DOMAIN md : md[x].k = Str(x - 1)
           /\ {md[x].v : x \in DOMAIN md} =
                 {keywords[x] : x \in AcceptedSessions}

\* pixel p of frame f is covered by a stored mask
InUnion(p, f) ==
    IF mode = "image"
    THEN \E x \in DOMAIN masks : masks[x].v[p]
    ELSE \E j \in 0..(num_masks - 1) :
            HasMask(j, f) /\ video_segments[keywords_with_masks[j + 1]][f][j + 1][p]

\* the frames composited under the bitmask 2^n - 1: <<artifact, position>>
AllPixelatedFrames ==
    {xp \in UNION {{<<x, pos>> : pos \in DOMAIN artifacts[x].frames} :
                      x \in DOMAIN artifacts} :
        artifacts[xp[1]].i[xp[2]] = total_combinations - 1}

\* C16: in the variant composited under the bitmask 2^n - 1 every pixel
\* outside the union of the masks has exactly the value it has in the
\* source (image mode: the source image; video mode: the source frame).
C16_OutsideUnionUntouched ==
    \A xp \in AllPixelatedFrames :
        LET a == artifacts[xp[1]]
            f == a.from[xp[2]]
        IN \A p \in Pixels(media.w, media.h) :
              ~InUnion(p, f) =>
                  a.frames[xp[2]].px[p] = SourceFrame(media, f).px[p]

\* an all-pixelated variant of one mask at least, in which a covered pixel
\* changed and an uncovered pixel exists
C16_Witness ==
    /\ num_masks >= 1
    /\ \E xp \in AllPixelatedFrames :
          LET a == artifacts[xp[1]]
              f == a.from[xp[2]]
          IN /\ \E p \in Pixels(media.w, media.h) : ~InUnion(p, f)
             /\ \E p \in Pixels(media.w, media.h) :
                   /\ InUnion(p, f)
                   /\ a.frames[xp[2]].px[p] # SourceFrame(media, f).px[p]

\* C17 (as amended): in the variant composited under the bitmask 2^n - 1
\* every pixel covered by the union of the stored masks has the value the
\* pixelated source has at that pixel, i.e. the value of the source pixel
\* sampled for its block, which may be the value the pixel had.
C17_CoveredPixelsPixelated ==
    \A xp \in AllPixelatedFrames :
        LET a == artifacts[xp[1]]
            f == a.from[xp[2]]
        IN \A p \in Pixels(media.w, media.h) :
              InUnion(p, f) =>
                  a.frames[xp[2]].px[p] = Pixelated(SourceFrame(media, f)).px[p]

\* C17 (as stated): in the variant composited under the bitmask 2^n - 1
\* every pixel covered by the union of the masks has a value different
\* from its source value.
C17_CoveredPixelsDiffer ==
    \A xp \in AllPixelatedFrames :
        LET a == artifacts[xp[1]]
            f == a.from[xp[2]]
        IN \A p \in Pixels(media.w, media.h) :
              InUnion(p, f) =>
                  a.frames[xp[2]].px[p] # SourceFrame(media, f).px[p]

\* an all-pixelated variant in which one covered pixel kept the value it
\* has in the source and another covered pixel lost it
C17_Witness ==
    \E xp \in AllPixelatedFrames :
        LET a == artifacts[xp[1]]
            f == a.from[xp[2]]
        IN \E p, q \in Pixels(media.w, media.h) :
              /\ InUnion(p, f) /\ InUnion(q, f)
              /\ a.frames[xp[2]].px[p] = SourceFrame(media, f).px[p]
              /\ a.frames[xp[2]].px[q] # SourceFrame(media, f).px[q]

\* C18: once the sessions of all keywords have ended, in image mode and
\* in video mode, the mask dump files are exactly the files
\* <keyword>_mask.<ext> of the accepted keywords, one per keyword: none is
\* missing, and a keyword that was only abandoned has none.
C18_OneMaskFilePerAcceptedKeyword ==
    Len(outcome) = Len(keywords) =>
        DOMAIN mask_files = {keywords[x] : x \in AcceptedSessions}

\* every operation of schedule_game succeeded: the config was loaded, the
\* original is in the blob store, combinations were generated and each of
\* them is in the blob store, one row was inserted and committed, and the
\* similarity data are stored
AllOperationsSucceeded ==
    /\ Len(sg_log) >= 1 /\ sg_log[1].ok
    /\ <<"original">> \in blobs
    /\ sg_generated # None /\ sg_generated[1] # {}
    /\ \A f \in sg_generated[1] : <<"pixelated", f>> \in blobs
    /\ Len(db.rows) = 1 /\ db.committed
    /\ redis_store.stored

\* C19: schedule_game returns True if and only if all of its operations
\* succeeded (config load, upload of the original, generation and upload
\* of the pixelated combinations, PostgreSQL insert, Redis load), and
\* False otherwise.
C19_TrueIffAllSucceeded ==
    sg_pc = "returned" =>
        (sg_result = <<TRUE>> <=> AllOperationsSucceeded)

MediaProcessed == Len(sg_log) >= 2

\* the media file is missing, the upload of the original failed, or the
\* segmenter raised
MediaFailed ==
    \/ ~sg_env.media_exists
    \/ ~sg_env.upload_original
    \/ sg_env.segmentation = "raises"

\* the returned map has an entry filename -> URL for exactly the generated
\* combinations whose upload succeeded
MapOfUploaded ==
    /\ uploaded_map # None
    /\ DOMAIN uploaded_map[1] = sg_generated[1] \cap sg_env.upload_ok
    /\ \A f \in DOMAIN uploaded_map[1] :
          /\ uploaded_map[1][f] = Url(<<"pixelated", f>>)
          /\ <<"pixelated", f>> \in blobs

\* C21 (as amended): process_game_media returns (None, None) when the
\* media file does not exist, the upload of the original fails or
\* segmentation raises; it returns the original's URL with None instead of
\* a map when the segmenter gave no combination; otherwise it returns the
\* original's URL with a map that has an entry filename -> URL for exactly
\* the generated combinations whose upload succeeded.
C21_ProcessGameMediaResult ==
    MediaProcessed =>
        IF MediaFailed
        THEN media_url = None /\ uploaded_map = None
        ELSE /\ media_url = <<Url(<<"original">>)>>
             /\ IF sg_generated[1] = {} THEN uploaded_map = None
                ELSE MapOfUploaded

\* C21 (as stated): process_game_media returns (None, None) in the three
\* failure cases and otherwise the original's URL together with a map of
\* exactly the generated combinations whose upload succeeded.
C21_AlwaysAMap ==
    MediaProcessed =>
        IF MediaFailed
        THEN media_url = None /\ uploaded_map = None
        ELSE /\ media_url = <<Url(<<"original">>)>>
             /\ MapOfUploaded

\* two combinations were generated and the upload of one of them failed:
\* the map has the other one only
C21_Witness ==
    /\ MediaProcessed /\ ~MediaFailed
    /\ Cardinality(sg_generated[1]) = 2
    /\ uploaded_map # None
    /\ Cardinality(DOMAIN uploaded_map[1]) = 1

\* load_game_data has been called with a connection and has returned
GameDataLoaded == Len(sg_log) >= 3 /\ sg_env.db # "connect_fails"

Selected(j) == cp_binary[j + 1] = "1" /\ cp_masks[j + 1] # None

\* pixel p is in the union of the selected masks
InSelectedUnion(p) ==
    \E j \in 0..(Len(cp_binary) - 1) : Selected(j) /\ cp_masks[j + 1][p]

\* C23: for every bitmask and every frame the composite equals the source
\* at every pixel outside the union of the selected masks and the fully
\* pixelated unmodified source at every pixel inside it, whatever the
\* order and the overlaps of the masks; an entirely false mask leaves the
\* frame as it is, an entirely true one gives the fully pixelated frame.
C23_CompositeOfUnion ==
    cp_pc = "done" =>
        \A p \in DOMAIN cp_source.px :
            cp_result.px[p] = IF InSelectedUnion(p)
                              THEN Pixelated(cp_source).px[p]
                              ELSE cp_source.px[p]

\* two selected masks that overlap, the first of which covers the pixels
\* sampled by the pixelation and changed some pixel
C23_Witness ==
    /\ cp_pc = "done"
    /\ Len(cp_binary) = 2 /\ Selected(0) /\ Selected(1)
    /\ cp_source.w = 45
    /\ \A p \in DOMAIN cp_source.px : cp_masks[1][p]
    /\ cp_masks[2] # cp_masks[1]
    /\ \E p \in DOMAIN cp_source.px : cp_masks[2][p]
    /\ \E p \in DOMAIN cp_source.px : cp_result.px[p] # cp_source.px[p]

\* the frame handed to the k-th iteration of the inner loop
InputOf(k) == IF k = 1 THEN cp_source ELSE cp_trace[k - 1]

\* C24: the compositor is deterministic and stable: applying it a second
\* time with the same mask gives the result of the first application, and
\* two applications to equal frames and masks give equal results.
C24_Stable ==
    /\ \A k \in DOMAIN cp_trace :
          (k > 1 /\ Selected(k - 1) /\ Selected(k - 2)
                 /\ cp_masks[k] = cp_masks[k - 1]) =>
              cp_trace[k] = cp_trace[k - 1]
    /\ \A k1, k2 \in DOMAIN cp_trace :
          (Selected(k1 - 1) /\ Selected(k2 - 1) /\ cp_masks[k1] = cp_masks[k2]
                 /\ InputOf(k1) = InputOf(k2)) =>
              cp_trace[k1] = cp_trace[k2]

\* the same mask, which covers a part of the frame only, was applied twice
\* in a row; the first application changed the frame
C24_Witness ==
    /\ Len(cp_trace) = 2 /\ Selected(0) /\ Selected(1)
    /\ cp_masks[1] = cp_masks[2]
    /\ \E p \in DOMAIN cp_source.px : ~cp_masks[1][p]
    /\ cp_trace[1] # cp_source
    /\ cp_trace[2] = cp_trace[1]

\* C25: during a session, after every added point the candidate is the
\* adapter's prediction for the whole list of points accumulated since the
\* session start or the last reset, and the mask an accept commits is the
\* prediction for exactly the points accumulated at that moment.
C25_CandidateFollowsPoints ==
    /\ (pc = "session" /\ points # <<>>) =>
          (mask # None /\ AcceptedMask = Predict(media, points))
    /\ (pc = "post" /\ accepted) =>
          DictGet(masks, keyword) = Predict(media, points)

\* the combination files this run wrote, as <<key, extension>>
WrittenArtifacts ==
    {[key |-> artifacts[x].key, ext |-> artifacts[x].ext] :
        x \in {y \in DOMAIN artifacts : artifacts[y].ext # "none"}}

\* C26: the map process_image / process_video return (whose size is the
\* count of the final report) covers exactly the combination artifacts
\* the run wrote: every artifact written, also under a fallback format or
\* container, is in the map, and the map has nothing else.
C26_MapCoversArtifacts ==
    pc = "exited" => pixelation_map[1] = WrittenArtifacts

\* iteration i of frame f was composited and filed in some artifact
Composited(f, i) ==
    \E x \in DOMAIN artifacts : \E pos \in DOMAIN artifacts[x].from :
        artifacts[x].from[pos] = f /\ artifacts[x].i[pos] = i

\* C27: in video generation a frame file that cannot be read is skipped
\* for every combination, every other frame is still composited for every
\* bitmask and handed to the encoder, and the run goes on to the metadata.
C27_UnreadableFrameSkipped ==
    (/\ mode = "video" /\ GenerationRan
     /\ ~ResizeFails(media.w, media.h)) =>
        /\ pc # "aborted"
        /\ \A f \in unreadable_frames : ~FrameWasRead(f)
        /\ \A f \in Frames \ unreadable_frames :
              \A i \in 0..(total_combinations - 1) : Composited(f, i)
        /\ \A x \in DOMAIN artifacts : artifacts[x].frames # <<>>

\* the file of frame 1 could not be read: both combinations of the one
\* accepted keyword were encoded from frame 0
C27_Witness ==
    /\ mode = "video" /\ lastOp = "generate_combinations" /\ pc = "metadata"
    /\ unreadable_frames = {1}
    /\ num_masks = 1
    /\ Len(artifacts) = 2
    /\ \A x \in DOMAIN artifacts :
          artifacts[x].from = <<0>> /\ artifacts[x].ext = ".mp4"

\* the position (from 1) of the current keyword in keywords_with_masks
PositionOfKeyword ==
    CHOOSE x \in DOMAIN keywords_with_masks : keywords_with_masks[x] = keyword

\* q is a non-empty prefix of the point list pts
IsPrefix(q, pts) ==
    /\ Len(q) >= 1 /\ Len(q) <= Len(pts)
    /\ \A x \in DOMAIN q : q[x] = pts[x]

\* C28: in video mode, whatever the keyword list, an accepted keyword at
\* position j of the accepted list had the points of its session
\* submitted to the adapter under object id j + 1, the id generation looks
\* its propagated mask up with, and no other accepted keyword has that id.
C28_ObjectIdOfPosition ==
    (mode = "video" /\ pc = "post" /\ accepted) =>
        /\ PositionOfKeyword \in ObjIds(inference_state)
        /\ IsPrefix(PointsOf(inference_state, PositionOfKeyword), points)
        /\ \A x \in AcceptedSessions : keywords[x] # keyword

\* C29: an accept signal received while there is no candidate (no point
\* added yet, or directly after a reset) changes nothing: no mask is
\* stored, the keyword is not marked accepted and the session stays open.
C29_AcceptWithoutCandidate ==
    [][(pc = "session" /\ mask = None /\ lastOp' = "on_accept") =>
          (/\ pc' = "session"
           /\ accepted' = accepted /\ ~accepted'
           /\ masks' = masks
           /\ video_segments' = video_segments
           /\ mask_files' = mask_files
           /\ points' = points /\ mask' = mask)]_vars

\* Accept was pressed directly after a reset: the session is still open
\* and nothing is accepted
C29_Witness ==
    /\ lastOp = "on_accept"
    /\ pc = "session"
    /\ resets = 1 /\ points = <<>> /\ mask = None
    /\ ~accepted
    /\ ~DictHas(masks, keyword)

\* C30: for media of any positive width and height, whenever the
\* compositor is applied the downsample size (width // 20, height // 20)
\* has both components at least 1, and generation of the 2^n variants
\* does not fail because of the media dimensions.
C30_SmallSizePositive ==
    (/\ lastOp = "generate_combinations"
     /\ media.w >= 1 /\ media.h >= 1
     /\ num_masks >= 1) =>
        /\ SmallSize(media.w, media.h)[1] >= 1
        /\ SmallSize(media.w, media.h)[2] >= 1
        /\ pc # "aborted"

====
